---- MODULE Spec2Model ----
(***************************************************************************)
(* The page-by-page document analysis pipeline of streamlit_app.py:        *)
(* process_pdf (temporary copy, open, page loop, per-page inference,       *)
(* cleanup, except handler) and the "Analyze Document" button handler      *)
(* (result tabs, per-page downloads, summary call, full report).           *)
(* Text is modelled with TLA+ strings, built the way the f-strings and     *)
(* str.join of the source build it.                                        *)
(***************************************************************************)
EXTENDS Integers, Sequences, FiniteSets, TLC

\* ---- bounds of the model ----
MaxLimit == 3       \* largest value entered in the "Max pages" widget
MaxDocPages == 3    \* largest page count of an uploaded document

\* ---- inputs drawn from small sets ----
FileNames == {"a.pdf", "b.pdf"}
Responses == {"memo", "telegram"}          \* response.text of a successful call
InferenceCauses == {"quota", "timeout"}    \* str(e) of a failed generate_content
OpenCauses == {"cannot open document"}     \* str(e) of a failed fitz.open
RenderCauses == {"cannot render page"}     \* str(e) of a failed load_page/get_pixmap

\* ---- prompt constants (bodies abbreviated) ----
DOCUMENT_ANALYSIS_PROMPT == "\nAnalyze this declassified JFK assassination document image in detail:\n"
SUMMARY_PROMPT_HEAD == "\nCreate a comprehensive summary of this declassified JFK document based on the following page-by-page analysis:\n\n"
SUMMARY_PROMPT_TAIL == "\n\nYour summary should:\n"

VARIABLES
    max_pages,        \* sidebar number_input value (min_value = 0)
    uploaded_file,    \* [name, page_count] of the uploaded PDF
    pc,               \* position of the button handler / process_pdf
    tmp_exists,       \* the NamedTemporaryFile(delete=False) copy is on disk
    doc_open,         \* fitz document handle is open
    total_pages,      \* process_pdf local
    pages_to_analyze, \* process_pdf local
    page_num,         \* loop variable of process_pdf (0-based)
    img_bytes,        \* PNG bytes of the page rendered last
    results,          \* process_pdf local list
    exc,              \* exception in flight inside process_pdf's try ("" = none)
    run_state,        \* "NotStarted" | "Running" | "Completed" | "Failed"
    handler_results,  \* `results` of the button handler (process_pdf's return value)
    st_errors,        \* messages passed to st.error, in order
    status_text,      \* text of the status placeholder
    progress,         \* <<numerator, denominator>> passed to progress_bar.progress
    calls,            \* every client.models.generate_content call, in order
    download_buttons, \* st.download_button widgets rendered, in order
    all_analysis      \* handler local

vars == <<max_pages, uploaded_file, pc, tmp_exists, doc_open, total_pages,
          pages_to_analyze, page_num, img_bytes, results, exc, run_state,
          handler_results, st_errors, status_text, progress, calls,
          download_buttons, all_analysis>>

Min(a, b) == IF a <= b THEN a ELSE b

\* ---- pure helpers of process_pdf ----

PagesToAnalyzeNoZeroCase(limit, total) == Min(limit, total)

PagesToAnalyzeNoLimit(limit, total) == total

\* line 131
PagesToAnalyze(limit, total) == IF limit = 0 THEN total ELSE Min(limit, total)

\* page.get_pixmap(...).tobytes("png") of 0-based page n
PixmapBytes(n) == "png-" \o ToString(n + 1)

AnalysisEntryZeroBased(n, text, image) ==
    [page_num |-> n, analysis |-> text, image |-> image]

\* the dict appended at lines 157-161 and 163-167
AnalysisEntry(n, text, image) ==
    [page_num |-> n + 1, analysis |-> text, image |-> image]

\* line 165
PageErrorText(cause) == "Error analyzing this page: " \o cause

\* line 181
PdfErrorText(cause) == "Error processing PDF: " \o cause

ExceptReturnPartial(collected) == collected

\* line 182: the except handler returns a fresh empty list
ExceptReturn(collected) == << >>

\* ---- pure helpers of the button handler ----

\* `if results:` (line 204)
TruthyAlways(list) == TRUE

Truthy(list) == Len(list) > 0

\* "\n\n".join(parts)
RECURSIVE JoinBlank(_)
JoinBlank(parts) ==
    IF Len(parts) = 0 THEN ""
    ELSE IF Len(parts) = 1 THEN parts[1]
    ELSE parts[1] \o "\n\n" \o JoinBlank(Tail(parts))

\* f"**Page {r['page_num']}**:\n{r['analysis']}" (line 234)
PageBlock(r) == "**Page " \o ToString(r.page_num) \o "**:\n" \o r.analysis

AllAnalysisDropLast(list) ==
    JoinBlank([i \in 1..(Len(list) - 1) |-> PageBlock(list[i])])

\* line 234
AllAnalysis(list) == JoinBlank([i \in 1..Len(list) |-> PageBlock(list[i])])

\* SUMMARY_PROMPT_TEMPLATE.format(all_analysis=...) (lines 41-56, 238)
SummaryPrompt(text) == SUMMARY_PROMPT_HEAD \o text \o SUMMARY_PROMPT_TAIL

\* line 247
FullReport(name, summary, text) ==
    "# JFK Document Analysis: " \o name \o "\n\n## Summary\n\n" \o summary
        \o "\n\n## Page-by-Page Analysis\n\n" \o text

\* lines 221-227
PageDownload(r) ==
    [label |-> "Download Analysis",
     data |-> "# Analysis of Page " \o ToString(r.page_num) \o "\n\n" \o r.analysis,
     file_name |-> "analysis_page_" \o ToString(r.page_num) \o ".txt"]

\* lines 248-253
ReportDownload(name, summary, text) ==
    [label |-> "Download Full Report",
     data |-> FullReport(name, summary, text),
     file_name |-> "jfk_analysis_" \o name \o ".txt"]

PageCall(prompt, image, n, failed, text) ==
    [contents |-> <<prompt, image>>, page |-> n, raised |-> failed, text |-> text]

SummaryCall(prompt, failed, text) ==
    [contents |-> <<prompt>>, page |-> 0, raised |-> failed, text |-> text]

\* ---- initial state: widgets set, file uploaded, button not clicked ----
Init ==
    /\ max_pages \in 0..MaxLimit
    /\ uploaded_file \in [name : FileNames, page_count : 0..MaxDocPages]
    /\ pc = "idle"
    /\ tmp_exists = FALSE
    /\ doc_open = FALSE
    /\ total_pages = 0
    /\ pages_to_analyze = 0
    /\ page_num = 0
    /\ img_bytes = ""
    /\ results = << >>
    /\ exc = ""
    /\ run_state = "NotStarted"
    /\ handler_results = << >>
    /\ st_errors = << >>
    /\ status_text = ""
    /\ progress = <<0, 1>>
    /\ calls = << >>
    /\ download_buttons = << >>
    /\ all_analysis = ""

\* lines 200-202, 118-123: button clicked, process_pdf entered, temp copy written
ClickAnalyze ==
    /\ pc = "idle"
    /\ pc' = "open"
    /\ results' = << >>
    /\ tmp_exists' = TRUE
    /\ run_state' = "Running"
    /\ UNCHANGED <<max_pages, uploaded_file, doc_open, total_pages,
                   pages_to_analyze, page_num, img_bytes, exc, handler_results,
                   st_errors, status_text, progress, calls, download_buttons,
                   all_analysis>>

\* lines 127-135: fitz.open succeeds
OpenOk ==
    /\ pc = "open"
    /\ doc_open' = TRUE
    /\ total_pages' = uploaded_file.page_count
    /\ pages_to_analyze' = PagesToAnalyze(max_pages, uploaded_file.page_count)
    /\ progress' = <<0, 1>>
    /\ status_text' = ""
    /\ page_num' = 0
    /\ pc' = "loop"
    /\ UNCHANGED <<max_pages, uploaded_file, tmp_exists, img_bytes, results, exc,
                   run_state, handler_results, st_errors, calls,
                   download_buttons, all_analysis>>

\* line 127: fitz.open raises
OpenFail ==
    /\ pc = "open"
    /\ \E cause \in OpenCauses : exc' = cause
    /\ pc' = "except"
    /\ UNCHANGED <<max_pages, uploaded_file, tmp_exists, doc_open, total_pages,
                   pages_to_analyze, page_num, img_bytes, results, run_state,
                   handler_results, st_errors, status_text, progress, calls,
                   download_buttons, all_analysis>>

\* lines 137-148: next iteration, page loaded and rendered
RenderOk ==
    /\ pc = "loop"
    /\ page_num < pages_to_analyze
    /\ page_num < uploaded_file.page_count
    /\ status_text' = "Processing page " \o ToString(page_num + 1) \o " of "
                        \o ToString(pages_to_analyze) \o "..."
    /\ img_bytes' = PixmapBytes(page_num)
    /\ pc' = "analyze"
    /\ UNCHANGED <<max_pages, uploaded_file, tmp_exists, doc_open, total_pages,
                   pages_to_analyze, page_num, results, exc, run_state,
                   handler_results, st_errors, progress, calls,
                   download_buttons, all_analysis>>

\* lines 137-148: load_page / get_pixmap / Image.open raises
\* (always, when the index is outside the document)
RenderFail ==
    /\ pc = "loop"
    /\ page_num < pages_to_analyze
    /\ status_text' = "Processing page " \o ToString(page_num + 1) \o " of "
                        \o ToString(pages_to_analyze) \o "..."
    /\ \E cause \in RenderCauses : exc' = cause
    /\ pc' = "except"
    /\ UNCHANGED <<max_pages, uploaded_file, tmp_exists, doc_open, total_pages,
                   pages_to_analyze, page_num, img_bytes, results, run_state,
                   handler_results, st_errors, progress, calls,
                   download_buttons, all_analysis>>

\* lines 151-161, 170: generate_content returns, entry appended, progress updated
AnalyzeOk ==
    /\ pc = "analyze"
    /\ \E text \in Responses :
        /\ calls' = Append(calls, PageCall(DOCUMENT_ANALYSIS_PROMPT, img_bytes,
                                           page_num + 1, FALSE, text))
        /\ results' = Append(results, AnalysisEntry(page_num, text, img_bytes))
    /\ progress' = <<page_num + 1, pages_to_analyze>>
    /\ page_num' = page_num + 1
    /\ pc' = "loop"
    /\ UNCHANGED <<max_pages, uploaded_file, tmp_exists, doc_open, total_pages,
                   pages_to_analyze, img_bytes, exc, run_state, handler_results,
                   st_errors, status_text, download_buttons, all_analysis>>

AnalyzeFailRetry ==
    /\ pc = "analyze"
    /\ \E cause \in InferenceCauses :
        calls' = Append(calls, PageCall(DOCUMENT_ANALYSIS_PROMPT, img_bytes,
                                        page_num + 1, TRUE, cause))
    /\ Len(calls) < 2 * MaxDocPages + 2
    /\ UNCHANGED <<max_pages, uploaded_file, pc, tmp_exists, doc_open,
                   total_pages, pages_to_analyze, page_num, img_bytes, results,
                   exc, run_state, handler_results, st_errors, status_text,
                   progress, download_buttons, all_analysis>>

AnalyzeFailAborts ==
    /\ pc = "analyze"
    /\ \E cause \in InferenceCauses :
        /\ calls' = Append(calls, PageCall(DOCUMENT_ANALYSIS_PROMPT, img_bytes,
                                           page_num + 1, TRUE, cause))
        /\ exc' = cause
    /\ pc' = "except"
    /\ UNCHANGED <<max_pages, uploaded_file, tmp_exists, doc_open, total_pages,
                   pages_to_analyze, page_num, img_bytes, results, run_state,
                   handler_results, st_errors, status_text, progress,
                   download_buttons, all_analysis>>

\* lines 151-155, 162-170: generate_content raises, placeholder entry appended
AnalyzeFail ==
    /\ pc = "analyze"
    /\ \E cause \in InferenceCauses :
        /\ calls' = Append(calls, PageCall(DOCUMENT_ANALYSIS_PROMPT, img_bytes,
                                           page_num + 1, TRUE, cause))
        /\ results' = Append(results,
                             AnalysisEntry(page_num, PageErrorText(cause), img_bytes))
    /\ progress' = <<page_num + 1, pages_to_analyze>>
    /\ page_num' = page_num + 1
    /\ pc' = "loop"
    /\ UNCHANGED <<max_pages, uploaded_file, tmp_exists, doc_open, total_pages,
                   pages_to_analyze, img_bytes, exc, run_state, handler_results,
                   st_errors, status_text, download_buttons, all_analysis>>

\* lines 172-178: loop exhausted, document closed, temp copy unlinked, results returned
Finish ==
    /\ pc = "loop"
    /\ page_num >= pages_to_analyze
    /\ status_text' = "Processing complete!"
    /\ doc_open' = FALSE
    /\ tmp_exists' = FALSE
    /\ handler_results' = results
    /\ run_state' = "Completed"
    /\ pc' = "returned"
    /\ UNCHANGED <<max_pages, uploaded_file, total_pages, pages_to_analyze,
                   page_num, img_bytes, results, exc, st_errors, progress, calls,
                   download_buttons, all_analysis>>

\* lines 180-182: except handler of process_pdf
ExceptHandler ==
    /\ pc = "except"
    /\ st_errors' = Append(st_errors, PdfErrorText(exc))
    /\ handler_results' = ExceptReturn(results)
    /\ run_state' = "Failed"
    /\ pc' = "returned"
    /\ UNCHANGED <<max_pages, uploaded_file, tmp_exists, doc_open, total_pages,
                   pages_to_analyze, page_num, img_bytes, results, exc,
                   status_text, progress, calls, download_buttons, all_analysis>>

\* lines 204-234: results truthy: tabs, per-page download buttons, all_analysis
ShowResults ==
    /\ pc = "returned"
    /\ Truthy(handler_results)
    /\ download_buttons' = download_buttons \o
           [i \in 1..Len(handler_results) |-> PageDownload(handler_results[i])]
    /\ all_analysis' = AllAnalysis(handler_results)
    /\ pc' = "summary"
    /\ UNCHANGED <<max_pages, uploaded_file, tmp_exists, doc_open, total_pages,
                   pages_to_analyze, page_num, img_bytes, results, exc, run_state,
                   handler_results, st_errors, status_text, progress, calls>>

\* line 204: results falsy, nothing more is rendered for the document
ShowNothing ==
    /\ pc = "returned"
    /\ ~Truthy(handler_results)
    /\ pc' = "done"
    /\ UNCHANGED <<max_pages, uploaded_file, tmp_exists, doc_open, total_pages,
                   pages_to_analyze, page_num, img_bytes, results, exc, run_state,
                   handler_results, st_errors, status_text, progress, calls,
                   download_buttons, all_analysis>>

\* lines 237-253: summary call returns, full report button rendered
SummaryOk ==
    /\ pc = "summary"
    /\ \E text \in Responses :
        /\ calls' = Append(calls, SummaryCall(SummaryPrompt(all_analysis), FALSE, text))
        /\ download_buttons' = Append(download_buttons,
               ReportDownload(uploaded_file.name, text, all_analysis))
    /\ pc' = "done"
    /\ UNCHANGED <<max_pages, uploaded_file, tmp_exists, doc_open, total_pages,
                   pages_to_analyze, page_num, img_bytes, results, exc, run_state,
                   handler_results, st_errors, status_text, progress, all_analysis>>

SummaryFailPlaceholderReport ==
    /\ pc = "summary"
    /\ \E cause \in InferenceCauses :
        /\ calls' = Append(calls, SummaryCall(SummaryPrompt(all_analysis), TRUE, cause))
        /\ st_errors' = Append(st_errors, "Error generating summary: " \o cause)
        /\ download_buttons' = Append(download_buttons,
               ReportDownload(uploaded_file.name, cause, all_analysis))
    /\ pc' = "done"
    /\ UNCHANGED <<max_pages, uploaded_file, tmp_exists, doc_open, total_pages,
                   pages_to_analyze, page_num, img_bytes, results, exc, run_state,
                   handler_results, status_text, progress, all_analysis>>

\* lines 237-243, 254-255: summary call raises, error shown
SummaryFail ==
    /\ pc = "summary"
    /\ \E cause \in InferenceCauses :
        /\ calls' = Append(calls, SummaryCall(SummaryPrompt(all_analysis), TRUE, cause))
        /\ st_errors' = Append(st_errors, "Error generating summary: " \o cause)
    /\ pc' = "done"
    /\ UNCHANGED <<max_pages, uploaded_file, tmp_exists, doc_open, total_pages,
                   pages_to_analyze, page_num, img_bytes, results, exc, run_state,
                   handler_results, status_text, progress, download_buttons,
                   all_analysis>>

Next ==
    \/ ClickAnalyze
    \/ OpenOk
    \/ OpenFail
    \/ RenderOk
    \/ RenderFail
    \/ AnalyzeOk
    \/ AnalyzeFail
    \/ Finish
    \/ ExceptHandler
    \/ ShowResults
    \/ ShowNothing
    \/ SummaryOk
    \/ SummaryFail

Spec == Init /\ [][Next]_vars

\* ---------------------------------------------------------------------
\* Properties
\* ---------------------------------------------------------------------

\* the page count the specification promises for limit L and P pages
ExpectedPages ==
    IF max_pages > 0 THEN Min(max_pages, uploaded_file.page_count)
    ELSE uploaded_file.page_count

PageCalls == SelectSeq(calls, LAMBDA c : c.page # 0)

SummaryCalls == SelectSeq(calls, LAMBDA c : c.page = 0)

ReportButtons == SelectSeq(download_buttons, LAMBDA b : b.label = "Download Full Report")

HandlerReached == pc \in {"returned", "summary", "done"}

\* C1: a run of process_pdf in which neither opening nor rendering fails
\* returns exactly min(L, P) entries when L > 0 and exactly P entries when
\* L = 0, and has gone through exactly that many loop iterations.
C1_ProcessesExpectedPages ==
    run_state = "Completed" =>
        /\ Len(handler_results) = ExpectedPages
        /\ page_num = ExpectedPages

C1_Witness ==
    /\ run_state = "Completed"
    /\ max_pages > 0
    /\ max_pages < uploaded_file.page_count
    /\ Len(handler_results) = max_pages

\* C2: the result list is ordered by ascending page index without gaps or
\* duplicates: the i-th entry has page_num = i, in the list under
\* construction and in the list a successful run returns, whether the
\* page's inference call succeeded or failed.
C2_AscendingPageIndex ==
    /\ \A i \in 1..Len(results) : results[i].page_num = i
    /\ run_state = "Completed" =>
           \A i \in 1..Len(handler_results) : handler_results[i].page_num = i

C2_Witness ==
    /\ run_state = "Completed"
    /\ Len(handler_results) >= 2
    /\ \E i, j \in 1..Len(PageCalls) : PageCalls[i].raised /\ ~PageCalls[j].raised

\* the text entry i must carry given the outcome of the inference call for page i
EntryTextFor(call) ==
    IF call.raised THEN "Error analyzing this page: " \o call.text ELSE call.text

EntriesMatchCalls ==
    /\ Len(PageCalls) = Len(handler_results)
    /\ \A i \in 1..Len(handler_results) :
        /\ PageCalls[i].page = i
        /\ handler_results[i].analysis = EntryTextFor(PageCalls[i])

OnlyPageFails(k) ==
    /\ k \in 1..Len(PageCalls)
    /\ \A i \in 1..Len(PageCalls) : PageCalls[i].raised <=> (i = k)

\* C3 as stated: when inference fails on page k only, a completed run holds
\* min(L, P) entries, entry k is the error placeholder and the others are
\* the model output.
C3_AsStated ==
    \A k \in 1..MaxDocPages :
        (run_state = "Completed" /\ OnlyPageFails(k)) =>
            /\ Len(handler_results) = Min(max_pages, uploaded_file.page_count)
            /\ EntriesMatchCalls

\* C3 amended: whichever per-page inference calls fail, a completed run holds
\* min(L, P) entries when L > 0 and P entries when L = 0, every entry of a
\* failed call is "Error analyzing this page: <cause>", every other entry is
\* exactly the model output for its page, and an inference failure is never
\* the exception that aborts the run.
C3_PerPageFailureTolerated ==
    /\ exc \notin InferenceCauses
    /\ run_state = "Completed" =>
        /\ Len(handler_results) = ExpectedPages
        /\ EntriesMatchCalls

C3_Witness ==
    /\ run_state = "Completed"
    /\ Len(handler_results) >= 2
    /\ OnlyPageFails(1)
    /\ handler_results[1].analysis = "Error analyzing this page: quota"
    /\ handler_results[2].analysis = "memo"

\* C4: once the except handler has run for an open or render failure, the
\* handler holds an empty result list and the failure is shown with st.error,
\* whatever was collected before the failure.
C4_FailureReturnsEmpty ==
    (exc # "" /\ HandlerReached) =>
        /\ run_state = "Failed"
        /\ handler_results = << >>
        /\ st_errors = <<"Error processing PDF: " \o exc>>

C4_Witness ==
    /\ run_state = "Failed"
    /\ exc \in RenderCauses
    /\ Len(results) >= 2
    /\ handler_results = << >>

\* C5: when process_pdf has returned, on any exit path, the temporary copy
\* of the upload is no longer on disk.
C5_TempCopyRemoved == HandlerReached => ~tmp_exists

\* C6 as stated: in every state and for every limit including 0, the result
\* list is no longer than min(limit, page count).
C6_AsStated ==
    /\ Len(results) <= Min(max_pages, uploaded_file.page_count)
    /\ Len(handler_results) <= Min(max_pages, uploaded_file.page_count)

\* C6 amended: in every state the result list is no longer than the
\* document's page count, and no longer than the limit when the limit is
\* not 0 (0 means no limit).
C6_LengthWithinLimit ==
    /\ Len(results) <= uploaded_file.page_count
    /\ Len(handler_results) <= uploaded_file.page_count
    /\ max_pages > 0 =>
        /\ Len(results) <= max_pages
        /\ Len(handler_results) <= max_pages

C6_Witness ==
    /\ pc = "loop"
    /\ max_pages > 0
    /\ max_pages < uploaded_file.page_count
    /\ Len(results) = max_pages

\* C7: every processed page gets exactly one inference call, failed or not,
\* and never a second one: the page calls made so far are one per entry, in
\* page order, and a completed run over n pages has made n of them.
C7_OneAttemptPerPage ==
    /\ Len(PageCalls) = Len(results)
    /\ \A i \in 1..Len(PageCalls) : PageCalls[i].page = i
    /\ run_state = "Completed" =>
           Len(PageCalls) = ExpectedPages

C7_Witness ==
    /\ run_state = "Completed"
    /\ Len(PageCalls) >= 2
    /\ PageCalls[1].raised
    /\ PageCalls[2].page = 2

SummaryFailed == Len(SummaryCalls) = 1 /\ SummaryCalls[1].raised

\* C8: when the summary call fails, the failure is shown with st.error, no
\* full-report download exists, the result list is what process_pdf returned
\* and every page keeps its own download button.
C8_SummaryFailureSurfaced ==
    SummaryFailed =>
        /\ st_errors = <<"Error generating summary: " \o SummaryCalls[1].text>>
        /\ ReportButtons = << >>
        /\ handler_results = results
        /\ Len(download_buttons) = Len(handler_results)
        /\ \A i \in 1..Len(handler_results) :
            /\ download_buttons[i].label = "Download Analysis"
            /\ download_buttons[i].data =
                   "# Analysis of Page " \o ToString(i) \o "\n\n"
                       \o handler_results[i].analysis

C8_Witness ==
    /\ pc = "done"
    /\ SummaryFailed
    /\ Len(handler_results) >= 2

\* C9: at most one summary call is made; when it is made it is the last
\* call, after one call for each target page, with every entry appended; a
\* finished run with entries has made it, a run that returned no entries
\* never makes it.
C9_SummaryOnceAfterPages ==
    /\ Len(SummaryCalls) <= 1
    /\ Len(SummaryCalls) = 1 =>
        /\ calls[Len(calls)].page = 0
        /\ run_state = "Completed"
        /\ Len(calls) - 1 = ExpectedPages
        /\ Len(handler_results) = ExpectedPages
        /\ Len(handler_results) > 0
    /\ (pc = "done" /\ Len(handler_results) > 0) => Len(SummaryCalls) = 1
    /\ (HandlerReached /\ Len(handler_results) = 0) => Len(SummaryCalls) = 0

C9_Witness ==
    /\ pc = "done"
    /\ Len(SummaryCalls) = 1
    /\ Len(handler_results) >= 2

\* the per-page text the specification gives, and the one the report carries
ClaimedPageText(r) == "Page " \o ToString(r.page_num) \o ": " \o r.analysis

ObservedPageText(r) == "**Page " \o ToString(r.page_num) \o "**:\n" \o r.analysis

\* the first k entries, each once, in order, separated by a blank line
RECURSIVE AggregateOf(_, _, _)
AggregateOf(list, k, claimed) ==
    IF k = 0 THEN ""
    ELSE LET block == IF claimed THEN ClaimedPageText(list[k])
                      ELSE ObservedPageText(list[k])
         IN IF k = 1 THEN block
            ELSE AggregateOf(list, k - 1, claimed) \o "\n\n" \o block

ReportProduced == Len(ReportButtons) = 1

\* C10 as stated: entries formatted "Page {index}: {text}", report headed
\* "# Document Analysis: {filename}".
C10_AsStated ==
    ReportProduced =>
        LET text == AggregateOf(handler_results, Len(handler_results), TRUE)
            summary == SummaryCalls[1].text
        IN /\ SummaryCalls[1].contents = <<SummaryPrompt(text)>>
           /\ ReportButtons[1].data =
                  "# Document Analysis: " \o uploaded_file.name
                      \o "\n\n## Summary\n\n" \o summary
                      \o "\n\n## Page-by-Page Analysis\n\n" \o text

\* C10 amended: the aggregate text holds every entry exactly once, in
\* ascending page order, each formatted "**Page {index}**:\n{text}", joined
\* by blank lines; it is the text embedded in the summary prompt, and the
\* report is "# JFK Document Analysis: {filename}", the "## Summary" section
\* with the summary text, then "## Page-by-Page Analysis" with that text.
C10_ReportFormat ==
    LET text == AggregateOf(handler_results, Len(handler_results), FALSE)
    IN /\ Len(SummaryCalls) = 1 =>
              SummaryCalls[1].contents = <<SummaryPrompt(text)>>
       /\ ReportProduced =>
              /\ ~SummaryCalls[1].raised
              /\ ReportButtons[1].data =
                     "# JFK Document Analysis: " \o uploaded_file.name
                         \o "\n\n## Summary\n\n" \o SummaryCalls[1].text
                         \o "\n\n## Page-by-Page Analysis\n\n" \o text

C10_Witness ==
    /\ ReportProduced
    /\ Len(handler_results) >= 2
    /\ handler_results[1].analysis = "memo"
    /\ handler_results[2].analysis = "Error analyzing this page: timeout"

====
